---- MODULE Spec2Model ----
(***************************************************************************)
(* Bob-Firmware: the GPS line framer and telemetry task of src/hat.cpp and *)
(* the QMC5883L magnetometer driver of lib/qmc5883l/qmc5883l.c.            *)
(***************************************************************************)
EXTENDS Integers, Sequences, FiniteSets, TLC

VARIABLES
    \* ---- hat.cpp: statics of the module and of uartRX
    uartBuf,      \* static char uartBuf[80]   (index 0..79)
    frameBuf,     \* static char frameBuf[80]  (index 0..79)
    copying,      \* static bool copying  (uartRX)
    index,        \* static uint8_t index (uartRX)
    \* ---- the serial line feeding uartRX (environment)
    cur,          \* the chunk of bytes now on the line
    pos,          \* how many bytes of cur have been received
    nFed,         \* chunks put on the line so far
    nNoise,       \* stray bytes received since the last chunk
    \* ---- history of the framer, for stating the properties
    frameAtStart, \* frameBuf when the first byte of cur arrived
    oob,          \* a byte was stored outside uartBuf[0..79]
    nPub,         \* publications (memcpy into frameBuf) since cur started
    \* ---- hat.cpp: hatTask, preempted by uartRX between any two byte reads
    taskPc,       \* "idle" | "parse" (inside minmea_parse_gga) | "parsed"
    rd,           \* bytes of frameBuf the parse has read
    snap,         \* the bytes it read, in order
    views,        \* every value frameBuf had while the parse ran
    nTicks,       \* hatTask invocations so far
    packetsSent,  \* static unsigned int packetsSent (hatTask)
    pkt,          \* struct packet p of the latest invocation, as written to LoRa
    calls,        \* the calls the latest invocation made to LoRa and fPush, in order
    \* ---- history of the task, for stating the properties
    fresh,        \* a frame was published since the previous invocation's parse
    lastGood,     \* the GPS fields of the last parse that succeeded
    tick,         \* the latest invocation: [ok, fresh, good]
    sentBefore,   \* hatTask invocations before the ones counted by nTicks
    \* ---- qmc5883l.c
    chip,         \* the QMC5883L's control registers [ctrl1, ctrl2]
    sensor,       \* the qmc_t session: [made, config]
    last          \* the last driver call: what the bus did and what it returned

framerVars == <<uartBuf, frameBuf, copying, index>>
lineVars   == <<cur, pos, nFed, nNoise>>
histVars   == <<frameAtStart, oob, nPub>>
taskVars   == <<taskPc, rd, snap, views, nTicks>>
pktVars    == <<packetsSent, pkt, calls>>
tickVars   == <<fresh, lastGood, tick, sentBefore>>
hatVars    == <<framerVars, lineVars, histVars, taskVars, pktVars, tickVars>>
qmcVars    == <<chip, sensor, last>>
vars       == <<hatVars, qmcVars>>

(***************************************************************************)
(* Bytes                                                                   *)
(***************************************************************************)
MINMEA_MAX_SENTENCE_LENGTH == 80
NUL    == 0
LF     == 10
DOLLAR == 36
COMMA  == 44
CH_A   == 65
CH_G   == 71
UINT8  == 256

BufIdx == 0 .. (MINMEA_MAX_SENTENCE_LENGTH - 1)
\* A char[80] is held as the tuple of its bytes up to the last one that is
\* not NUL: the bytes after it, up to index 79, are NUL (the arrays are
\* static, so all NUL at boot).  At(buf, i) is buf[i] of the C code.
ZeroBuf == <<>>
At(buf, i) == IF i < Len(buf) THEN buf[i + 1] ELSE NUL

RECURSIVE Trim(_)
Trim(s) == IF s # <<>> /\ s[Len(s)] = NUL THEN Trim(SubSeq(s, 1, Len(s) - 1)) ELSE s

\* "GGA", the needle of strstr
Marker == <<CH_G, CH_G, CH_A>>

(***************************************************************************)
(* strstr(uartBuf, "GGA") != NULL.  The haystack is the C string that      *)
(* starts at uartBuf[0]: it ends at the first NUL.  uartBuf is a plain     *)
(* char array: when none of its 80 bytes is NUL the scan runs past the     *)
(* array, and what it finds there is whatever the build put after it.      *)
(***************************************************************************)
Unterminated(buf) == \A i \in BufIdx : At(buf, i) # NUL

StrEnd(buf) ==
    IF Unterminated(buf) THEN MINMEA_MAX_SENTENCE_LENGTH
    ELSE CHOOSE i \in BufIdx :
            At(buf, i) = NUL /\ \A j \in 0 .. (i - 1) : At(buf, j) # NUL

MarkerAt(buf, i) == \A k \in 1 .. 3 : At(buf, i + k - 1) = Marker[k]

MarkerInString(buf) == \E i \in 0 .. (StrEnd(buf) - 3) : MarkerAt(buf, i)

\* the set of results strstr(...) != NULL can have
StrstrFound(buf) ==
    IF MarkerInString(buf) THEN {TRUE}
    ELSE IF Unterminated(buf) THEN {TRUE, FALSE}
    ELSE {FALSE}

(***************************************************************************)
(* uartRX, one received byte ch.                                           *)
(***************************************************************************)
\* if (copying && index < MINMEA_MAX_SENTENCE_LENGTH)
StoreGuardUnbounded(c, i) == c

StoreGuard(c, i) == c /\ i < MINMEA_MAX_SENTENCE_LENGTH

\* uartBuf[index] = ch
Store(buf, i, ch) ==
    IF i \in BufIdx
    THEN Trim([k \in 1 .. (IF i + 1 > Len(buf) THEN i + 1 ELSE Len(buf)) |->
                 IF k = i + 1 THEN ch ELSE At(buf, k - 1)])
    ELSE buf

\* if (ch == '$') { copying = true; index = 0; }
StartIndexWhenIdle(ch, c, i) == IF ch = DOLLAR /\ ~c THEN 0 ELSE i

StartIndex(ch, c, i) == IF ch = DOLLAR THEN 0 ELSE i

uartRX(ch, pubs) ==
    LET copying1 == IF ch = DOLLAR THEN TRUE ELSE copying
        index1   == StartIndex(ch, copying, index)
        buf1     == Store(uartBuf, index1, ch)
    IN  /\ copying' = copying1
        /\ IF StoreGuard(copying1, index1)
           THEN /\ uartBuf' = buf1
                /\ oob' = (oob \/ index1 \notin BufIdx)
                /\ index' = (index1 + 1) % UINT8
                /\ IF ch = LF
                   THEN \E found \in StrstrFound(buf1) :
                          IF found
                          THEN frameBuf' = buf1 /\ nPub' = pubs + 1
                          ELSE frameBuf' = frameBuf /\ nPub' = pubs
                   ELSE frameBuf' = frameBuf /\ nPub' = pubs
           ELSE /\ index' = index1
                /\ nPub' = pubs
                /\ UNCHANGED <<uartBuf, frameBuf, oob>>

(***************************************************************************)
(* The serial line.  The receiver sends chunks: well-formed sentences with *)
(* and without the type marker, of every length class around the buffer's  *)
(* capacity, and sentences cut off before their terminator.  Between two   *)
(* chunks stray bytes may arrive.                                          *)
(***************************************************************************)
MaxChunks == 2
MaxNoise  == 1
ShortPad  == 2
LongPad   == 6

Pad(n) == [i \in 1 .. n |-> COMMA]

\* '$' pad^a "GGA" pad^b '\n'
GGASentence(a, b) == <<DOLLAR>> \o Pad(a) \o Marker \o Pad(b) \o <<LF>>
\* '$' pad^n '\n'
PlainSentence(n)  == <<DOLLAR>> \o Pad(n) \o <<LF>>
\* '$' pad^a "GGA" pad^b, the terminator lost
CutSentence(a, b) == <<DOLLAR>> \o Pad(a) \o Marker \o Pad(b)

Capacity == MINMEA_MAX_SENTENCE_LENGTH

GGASentences ==
    { GGASentence(0, 0), GGASentence(ShortPad, 0), GGASentence(0, LongPad),
      GGASentence(ShortPad, Capacity - 5 - ShortPad),       \* exactly 80 bytes
      GGASentence(ShortPad, Capacity - 4 - ShortPad),       \* 81 bytes
      GGASentence(Capacity, 0) }                            \* marker past 80
PlainSentences ==
    { PlainSentence(0), PlainSentence(LongPad),
      PlainSentence(Capacity - 2),                          \* exactly 80 bytes
      PlainSentence(Capacity + ShortPad) }
CutSentences == { CutSentence(ShortPad, ShortPad) }

Chunks == GGASentences \cup PlainSentences \cup CutSentences
\* the short sentences among them
ShortChunks ==
    { GGASentence(0, 0), GGASentence(ShortPad, 0), GGASentence(0, LongPad),
      PlainSentence(0) }
NoiseBytes == {COMMA, LF, CH_A}

Contains(s, m) ==
    \E i \in 0 .. (Len(s) - Len(m)) : \A k \in 1 .. Len(m) : s[i + k] = m[k]

\* a sentence: '$' first, '\n' last and nowhere else
IsSentence(s) ==
    /\ Len(s) >= 2
    /\ s[1] = DOLLAR
    /\ s[Len(s)] = LF
    /\ \A i \in 1 .. (Len(s) - 1) : s[i] # LF
    /\ \A i \in 2 .. Len(s) : s[i] # DOLLAR

LineIdle == pos = Len(cur)

\* the first byte of a new chunk arrives
RxStart(menu) ==
    /\ LineIdle
    /\ nFed < MaxChunks
    /\ \E s \in menu :
         /\ cur' = s
         /\ pos' = 1
         /\ uartRX(s[1], 0)
    /\ nFed' = nFed + 1
    /\ nNoise' = 0
    /\ frameAtStart' = frameBuf

\* the next byte of the chunk arrives
RxNext ==
    /\ pos < Len(cur)
    /\ uartRX(cur[pos + 1], nPub)
    /\ pos' = pos + 1
    /\ UNCHANGED <<cur, nFed, nNoise, frameAtStart>>

\* a stray byte arrives between two chunks (or before the first)
RxNoise ==
    /\ LineIdle
    /\ nNoise < MaxNoise
    /\ \E ch \in NoiseBytes : uartRX(ch, nPub)
    /\ nNoise' = nNoise + 1
    /\ UNCHANGED <<cur, pos, nFed, frameAtStart>>

(***************************************************************************)
(* hatTask.  minmea_parse_gga(&frame, frameBuf) scans the C string in      *)
(* frameBuf byte by byte; uartRX is an interrupt handler and runs to       *)
(* completion between any two of these reads.                              *)
(***************************************************************************)
MaxTicks   == 1
MaxPackets == 3
\* an unsigned int (32 bits) is held as its two 16-bit halves
UINT16 == 65536
CH_0 == 48
CH_P == 80

ToUint8(v) == v % 256

(***************************************************************************)
(* minmea_parse_gga(&frame, frameBuf), as far as the sentences on the line *)
(* exercise it: the scan wants '$', a five-character type ending in "GGA"  *)
(* and fourteen comma-separated fields, each of which may be empty.  An    *)
(* empty time field gives hours = minutes = seconds = -1, an empty number  *)
(* gives value 0 with scale 0.  The bytes after the last field are not     *)
(* looked at.  "$GPGGA,,,,,,,d,,,,,,," carries d satellites tracked.       *)
(***************************************************************************)
GGAHeader == <<DOLLAR, CH_G, CH_P, CH_G, CH_G, CH_A>>

FixSentence(d) == GGAHeader \o Pad(7) \o <<CH_0 + d>> \o Pad(7) \o <<LF>>

Frame(time, lat, lon, sats) ==
    [time |-> time, latitude |-> lat, longitude |-> lon, satellites_tracked |-> sats]

NoFloat == [value |-> 0, scale |-> 0]

ParsesGGA(s) ==
    /\ Len(s) >= 21
    /\ SubSeq(s, 1, 6) = GGAHeader
    /\ \A i \in 7 .. 13 : s[i] = COMMA
    /\ (s[14] - CH_0) \in 0 .. 9
    /\ \A i \in 15 .. 21 : s[i] = COMMA

\* struct minmea_sentence_gga frame is a local without initialiser: when the
\* parse fails (its result is not looked at) the fields hold what the stack
\* held
GarbageFrames ==
    { Frame(<<0, 0, 0>>, NoFloat, NoFloat, 0),
      Frame(<<7, 200, 61>>, [value |-> 1234567, scale |-> 10000],
            [value |-> 89, scale |-> 100], 170) }

ParseOutcomes(s) ==
    IF ParsesGGA(s)
    THEN { Frame(<<-1, -1, -1>>, NoFloat, NoFloat, s[14] - CH_0) }
    ELSE GarbageFrames

\* minmea_rescale(&f, new_scale), for the values met here (f.value >= 0)
Rescale(f, new) ==
    IF f.scale = 0 THEN 0
    ELSE IF f.scale = new THEN f.value
    ELSE IF f.scale > new
         THEN (f.value + (IF f.value > 0 THEN 1 ELSE 0) * ((f.scale \div new) \div 2))
                 \div (f.scale \div new)
         ELSE f.value * (new \div f.scale)

(***************************************************************************)
(* struct packet p, of which the sequence number and the GPS fields are    *)
(* kept (the rest are copies of the collaborators' state), and gpsData.    *)
(***************************************************************************)
Packet(seq, frame) ==
    [seq_no   |-> seq,
     time_utc |-> << ToUint8(frame.time[1]), ToUint8(frame.time[2]),
                     ToUint8(frame.time[3]) >>,
     lat      |-> Rescale(frame.latitude, 1000),
     lng      |-> Rescale(frame.longitude, 1000),
     sat      |-> ToUint8(frame.satellites_tracked)]

ZeroPacket == [seq_no |-> [hi |-> 0, lo |-> 0], time_utc |-> <<0, 0, 0>>, lat |-> 0, lng |-> 0, sat |-> 0]

GpsRecord(p, frame) ==
    [lat |-> p.lat, lon |-> p.lng, sats |-> p.sat, utc |-> frame.time]

\* the GPS fields of a packet
GpsFields(p) == [time_utc |-> p.time_utc, lat |-> p.lat, lng |-> p.lng, sat |-> p.sat]

\* what LoRa.beginPacket, LoRa.write and LoRa.endPacket report
RadioOutcomes == { <<TRUE, TRUE, TRUE>>, <<FALSE, TRUE, TRUE>>, <<TRUE, FALSE, TRUE>> }

CallOf(name, arg, ok) == [call |-> name, arg |-> arg, ok |-> ok]

\* LoRa.beginPacket(); LoRa.write(&p, sizeof p); LoRa.endPacket();
RadioCallsStopOnFailure(p, r) ==
    IF ~r[1] THEN << CallOf("beginPacket", <<>>, r[1]) >>
    ELSE IF ~r[2] THEN << CallOf("beginPacket", <<>>, r[1]), CallOf("write", p, r[2]) >>
    ELSE << CallOf("beginPacket", <<>>, r[1]), CallOf("write", p, r[2]),
            CallOf("endPacket", <<>>, r[3]) >>

RadioCalls(p, r) ==
    << CallOf("beginPacket", <<>>, r[1]), CallOf("write", p, r[2]),
       CallOf("endPacket", <<>>, r[3]) >>

\* fPush(&gpsData, sizeof(gps_t), GPS)
LogCallFirst(p, g, r) == << CallOf("fPush", g, TRUE) >> \o RadioCalls(p, r)

TaskCalls(p, g, r) == RadioCalls(p, r) \o << CallOf("fPush", g, TRUE) >>

U32(hi, lo) == [hi |-> hi, lo |-> lo]

\* v + 1 in 32 bits
Inc32(v) ==
    IF v.lo = UINT16 - 1 THEN U32((v.hi + 1) % UINT16, 0) ELSE U32(v.hi, v.lo + 1)

\* packetsSent++
NextSeqIfSent(sent, r) == IF r[1] /\ r[2] /\ r[3] THEN Inc32(sent) ELSE sent

NextSeq(sent, r) == Inc32(sent)

(***************************************************************************)
(* hatTask.  minmea_parse_gga(&frame, frameBuf) scans the C string in      *)
(* frameBuf byte by byte; uartRX is an interrupt handler and runs to       *)
(* completion between any two of these reads.                              *)
(***************************************************************************)
\* the scheduler runs hatTask: the parse begins
Tick(limit) ==
    /\ taskPc = "idle"
    /\ nTicks < limit
    /\ taskPc' = "parse"
    /\ rd' = 0
    /\ snap' = <<>>
    /\ views' = {frameBuf}
    /\ nTicks' = nTicks + 1
    /\ calls' = <<>>
    /\ UNCHANGED <<packetsSent, pkt, tickVars, framerVars, lineVars, histVars, qmcVars>>

TaskStart == Tick(MaxTicks)

\* the parse reads frameBuf[rd]; the string ends at a NUL or at the array's end
TaskRead ==
    /\ taskPc = "parse"
    /\ snap' = Append(snap, At(frameBuf, rd))
    /\ rd' = rd + 1
    /\ taskPc' = IF At(frameBuf, rd) = NUL \/ rd + 1 = MINMEA_MAX_SENTENCE_LENGTH
                 THEN "parsed" ELSE "parse"
    /\ UNCHANGED <<views, nTicks, pktVars, tickVars, framerVars, lineVars, histVars,
                   qmcVars>>

\* the rest of hatTask: the packet is built from the parsed fields, written
\* to the radio, gpsData is logged, packetsSent is incremented
TaskFinish ==
    /\ taskPc = "parsed"
    /\ taskPc' = "idle"
    /\ \E frame \in ParseOutcomes(snap), r \in RadioOutcomes :
         LET p == Packet(packetsSent, frame)
         IN  /\ pkt' = p
             /\ calls' = TaskCalls(p, GpsRecord(p, frame), r)
             /\ packetsSent' = NextSeq(packetsSent, r)
             /\ lastGood' = IF ParsesGGA(snap) THEN GpsFields(p) ELSE lastGood
    /\ tick' = [ok |-> ParsesGGA(snap), fresh |-> fresh, good |-> lastGood]
    /\ fresh' = FALSE
    /\ UNCHANGED <<rd, snap, views, nTicks, sentBefore, framerVars, lineVars,
                   histVars, qmcVars>>

\* what a receive interrupt leaves of the task's state; pubs is the count
\* of publications nPub is compared with
TaskPreempted(pubs) ==
    /\ views' = IF taskPc = "parse" THEN views \cup {frameBuf'} ELSE views
    /\ fresh' = (fresh \/ nPub' > pubs)
    /\ UNCHANGED <<taskPc, rd, snap, nTicks, pktVars, lastGood, tick, sentBefore,
                   qmcVars>>

IrqStart == RxStart(Chunks) /\ TaskPreempted(0)
IrqShort == RxStart(ShortChunks) /\ TaskPreempted(0)
IrqNext  == RxNext /\ TaskPreempted(nPub)
IrqNoise == RxNoise /\ TaskPreempted(nPub)

\* the task's statics and locals after sent invocations
TaskState(sent) ==
    /\ taskPc = "idle"
    /\ rd = 0
    /\ snap = <<>>
    /\ views = {}
    /\ nTicks = 0
    /\ packetsSent = sent
    /\ pkt = ZeroPacket
    /\ calls = <<>>
    /\ fresh = FALSE
    /\ lastGood = GpsFields(ZeroPacket)
    /\ tick = [ok |-> FALSE, fresh |-> FALSE, good |-> GpsFields(ZeroPacket)]
    /\ sentBefore = sent

TaskInit == TaskState([hi |-> 0, lo |-> 0])

(***************************************************************************)
(* qmc5883l.c: the QMC5883L magnetometer driver.                           *)
(* qmc5883l.h gives the codes and bit positions used below.                *)
(***************************************************************************)
QMC_OK            == 0
QMC_ERROR_TIMEOUT == -1
QMC_ERROR_GENERIC == -2
QMC_ERROR_INVALID == -3
QMC_ERROR_STANDBY == -4

QMC_MODE_SHIFT  == 0
QMC_ODR_SHIFT   == 2
QMC_SCALE_SHIFT == 4
QMC_OSR_SHIFT   == 6
QMC_INT_ENB     == 0
QMC_ROL_PNT     == 6
QMC_STANDBY     == 0
QMC_DRDY        == 0
QMC_DOVL        == 1
QMC_DSKIP       == 2

\* if(buffer[0] & 0x22)
ReservedMask == 34

Bytes == 0 .. 255

\* bit k of a byte, and the bitwise operators of C on bytes
Bit(v, k) ==
    CASE k = 0 -> v % 2
      [] k = 1 -> (v \div 2) % 2
      [] k = 2 -> (v \div 4) % 2
      [] k = 3 -> (v \div 8) % 2
      [] k = 4 -> (v \div 16) % 2
      [] k = 5 -> (v \div 32) % 2
      [] k = 6 -> (v \div 64) % 2
      [] k = 7 -> (v \div 128) % 2

Pow2(k) ==
    CASE k = 0 -> 1 [] k = 1 -> 2 [] k = 2 -> 4 [] k = 3 -> 8 [] k = 4 -> 16
      [] k = 5 -> 32 [] k = 6 -> 64 [] k = 7 -> 128 [] k = 8 -> 256

Shl(v, k) == v * Pow2(k)
Shr(v, k) == v \div Pow2(k)

AndBit(a, b, k) == Bit(a, k) * Bit(b, k) * Pow2(k)
BitAnd(a, b) ==
    AndBit(a, b, 0) + AndBit(a, b, 1) + AndBit(a, b, 2) + AndBit(a, b, 3)
      + AndBit(a, b, 4) + AndBit(a, b, 5) + AndBit(a, b, 6) + AndBit(a, b, 7)

OrBit(a, b, k) == IF Bit(a, k) + Bit(b, k) > 0 THEN Pow2(k) ELSE 0
BitOr(a, b) ==
    OrBit(a, b, 0) + OrBit(a, b, 1) + OrBit(a, b, 2) + OrBit(a, b, 3)
      + OrBit(a, b, 4) + OrBit(a, b, 5) + OrBit(a, b, 6) + OrBit(a, b, 7)

ToInt16(v) == LET w == v % 65536 IN IF w >= 32768 THEN w - 65536 ELSE w
BoolBit(b) == IF b THEN 1 ELSE 0
Min(a, b) == IF a < b THEN a ELSE b

(***************************************************************************)
(* The bus.  i2c_write/read_timeout_per_char_us return the number of bytes *)
(* moved, or a negative code.  A register is stored by the chip when its   *)
(* two-byte write is moved in full.  QMCReadBytes first writes the         *)
(* register selector and drops that write's result: when the selector was  *)
(* not taken, the bytes a read then moves are those of whatever register   *)
(* the chip's pointer was left at.                                         *)
(***************************************************************************)
BusErrors == {QMC_ERROR_TIMEOUT, QMC_ERROR_GENERIC}
\* the full count, a short count, or an error
Counts(len) == {len, len - 1} \cup BusErrors
SelResults == {1, QMC_ERROR_GENERIC, QMC_ERROR_TIMEOUT}
\* what a read moves when the selector was not taken
StrayBytes == {255}

\* QMCWriteByte(sensor, reg, value) returning n
WriteEffect(regs, reg, value, n) ==
    IF n = 2 THEN [regs EXCEPT ![reg] = value] ELSE regs

\* QMCReadBytes(sensor, reg, 1, buffer): selector result, read result, byte.
\* A read that fails leaves no byte.  The selector's result changes nothing
\* the driver sees unless the read itself succeeds; it is told apart there,
\* and on a bus that times out on the selector and on the read alike.
ReadOutcomes(regValue) ==
    { [sel |-> 1, n |-> n, byte |-> IF n = 1 THEN regValue ELSE 0] : n \in Counts(1) }
      \cup { [sel |-> QMC_ERROR_GENERIC, n |-> 1, byte |-> b] : b \in StrayBytes }
      \cup { [sel |-> QMC_ERROR_TIMEOUT, n |-> QMC_ERROR_TIMEOUT, byte |-> 0] }

(***************************************************************************)
(* struct qmc_cfg                                                          *)
(***************************************************************************)
Modes  == 0 .. 1
ODRs   == 0 .. 3
OSRs   == 0 .. 3
Scales == 0 .. 1

Cfg(m, odr, osr, sc, rol, int) ==
    [mode |-> m, ODR |-> odr, OSR |-> osr, scale |-> sc,
     pointerRoll |-> rol, enableInterrupt |-> int, control |-> <<0, 0>>]

ZeroCfg == Cfg(0, 0, 0, 0, FALSE, FALSE)

\* config.control[0] = ..., config.control[1] = ...
Pack(config) ==
    [config EXCEPT
       !.control =
          << ToUint8(BitOr(BitOr(Shl(config.mode, QMC_MODE_SHIFT),
                                 Shl(config.ODR, QMC_ODR_SHIFT)),
                           BitOr(Shl(config.OSR, QMC_OSR_SHIFT),
                                 Shl(config.scale, QMC_SCALE_SHIFT)))),
             ToUint8(BitOr(Shl(BoolBit(config.pointerRoll), QMC_ROL_PNT),
                           Shl(BoolBit(config.enableInterrupt), QMC_INT_ENB))) >>]

\* QMCSetCfg after its two writes returned w0 and w1
SetCfgFirstWriteOnly(config, req, w0, w1) ==
    IF w0 = 2
    THEN [ret |-> 0, config |-> Pack(req)]
    ELSE [ret |-> Min(w0, w1), config |-> config]

SetCfgCall(config, req, w0, w1) ==
    IF w0 = 2 /\ w1 = 2
    THEN [ret |-> 0, config |-> Pack(req)]
    ELSE [ret |-> Min(w0, w1), config |-> config]

\* the four fields QMCGetCfg decodes from buffer[0]
Decode(config, b0) ==
    [config EXCEPT
       !.ODR   = BitAnd(Shr(b0, QMC_ODR_SHIFT), 3),
       !.OSR   = BitAnd(Shr(b0, QMC_OSR_SHIFT), 3),
       !.mode  = BitAnd(b0, 1),
       !.scale = BitAnd(Shr(b0, QMC_SCALE_SHIFT), 1)]

\* QMCGetCfg after its two reads returned r0 and r1 and left b0, b1 in buffer
GetCfgOneReservedBit(config, r0, r1, b0, b1) ==
    IF r0 = 1 /\ r1 = 1
    THEN [ret |-> IF BitAnd(b0, 32) # 0 THEN QMC_ERROR_INVALID ELSE QMC_OK,
          config |-> Decode(config, b0)]
    ELSE [ret |-> Min(r0, r1), config |-> config]

GetCfgDecodesAnyway(config, r0, r1, b0, b1) ==
    IF r0 = 1 /\ r1 = 1
    THEN [ret |-> IF BitAnd(b0, ReservedMask) # 0 THEN QMC_ERROR_INVALID ELSE QMC_OK,
          config |-> Decode(config, b0)]
    ELSE [ret |-> Min(r0, r1), config |-> Decode(config, 255)]

GetCfgCall(config, r0, r1, b0, b1) ==
    IF r0 = 1 /\ r1 = 1
    THEN [ret |-> IF BitAnd(b0, ReservedMask) # 0 THEN QMC_ERROR_INVALID ELSE QMC_OK,
          config |-> Decode(config, b0)]
    ELSE [ret |-> Min(r0, r1), config |-> config]

\* QMCTest, given what its QMCGetCfg call did
TestCall(c) ==
    IF c.ret = 0
    THEN (IF c.config.mode # QMC_STANDBY THEN QMC_OK ELSE QMC_ERROR_STANDBY)
    ELSE c.ret

\* QMCGetStatus after its read returned n and left reg
StatusCallGenericOnly(n, reg) ==
    IF n = 1
    THEN [ret |-> 0,
          out |-> << BitAnd(reg, Shl(1, QMC_DRDY)) # 0,
                     BitAnd(reg, Shl(1, QMC_DOVL)) # 0,
                     BitAnd(reg, Shl(1, QMC_DSKIP)) # 0 >>]
    ELSE [ret |-> QMC_ERROR_GENERIC, out |-> <<>>]

StatusCall(n, reg) ==
    IF n = 1
    THEN [ret |-> 0,
          out |-> << BitAnd(reg, Shl(1, QMC_DRDY)) # 0,
                     BitAnd(reg, Shl(1, QMC_DOVL)) # 0,
                     BitAnd(reg, Shl(1, QMC_DSKIP)) # 0 >>]
    ELSE [ret |-> IF n = -1 THEN QMC_ERROR_TIMEOUT ELSE QMC_ERROR_GENERIC,
          out |-> <<>>]

\* buffer[lo] | (buffer[hi] << 8), stored in an int16_t: the two bytes
\* occupy disjoint bits, so the | is a sum
Word(lo, hi) == ToInt16(lo + Shl(hi, 8))

\* QMCGetMag after its read returned n and left buffer
MagCall(n, buffer) ==
    [ret |-> IF n = QMC_ERROR_TIMEOUT THEN QMC_ERROR_TIMEOUT ELSE QMC_ERROR_GENERIC,
     out |-> IF n = 6
             THEN << Word(buffer[1], buffer[2]), Word(buffer[3], buffer[4]),
                     Word(buffer[5], buffer[6]) >>
             ELSE <<>>]

\* QMCGetTemp after its two reads returned r0 and r1 and left b0, b1
TempCall(r0, r1, b0, b1) ==
    IF r0 = 1 /\ r1 = 1
    THEN [ret |-> 0, out |-> << Word(b0, b1) >>]
    ELSE [ret |-> Min(r0, r1), out |-> <<>>]

(***************************************************************************)
(* The driver's operations as steps.  last records the call: res the       *)
(* results of its writes or reads, sels the results of the selector writes *)
(* of its reads (selOk: every one was taken), buf the bytes read, ret the   *)
(* value returned, out the values stored through the out-pointer, req the  *)
(* configuration asked for.                                                *)
(***************************************************************************)
Call(op, res, sels, buf, ret, out, req) ==
    [op |-> op, res |-> res, sels |-> sels,
     selOk |-> \A i \in DOMAIN sels : sels[i] = 1,
     buf |-> buf, ret |-> ret, out |-> out, req |-> req]

NoCall == Call("none", <<>>, <<>>, <<>>, QMC_OK, <<>>, ZeroCfg)

\* what an uninitialised struct qmc_cfg on the stack may hold
GarbageCfgs == { [Cfg(1, 3, 3, 1, TRUE, TRUE) EXCEPT !.control = <<255, 255>>] }

\* the configurations callers ask for
CfgRequests ==
    { Cfg(0, 0, 0, 0, FALSE, FALSE), Cfg(1, 3, 3, 1, TRUE, TRUE),
      Cfg(1, 2, 1, 0, TRUE, FALSE) }

\* bytes the status register may hold
StatusBytes == {5, 2}
\* temperature registers, LSB first
TempFrames == { <<52, 128>> }
\* X, Y, Z output registers, LSB first
MagFrames == { <<0, 0, 0, 0, 0, 0>>, <<1, 2, 255, 255, 0, 128>> }

QMCInit ==
    /\ ~sensor.made
    /\ \E g \in GarbageCfgs, w \in Counts(2),
          o0 \in ReadOutcomes(chip.ctrl1), o1 \in ReadOutcomes(chip.ctrl2) :
         LET c == GetCfgCall(g, o0.n, o1.n, o0.byte, o1.byte)
         IN  /\ sensor' = [made |-> TRUE, config |-> c.config]
             /\ last' = Call("Init", <<w, o0.n, o1.n>>, <<o0.sel, o1.sel>>,
                             <<o0.byte, o1.byte>>, QMC_OK, <<>>, g)
    /\ UNCHANGED <<chip, hatVars>>

QMCSetCfg ==
    /\ sensor.made
    /\ \E req \in CfgRequests, w0 \in Counts(2), w1 \in Counts(2) :
         LET c == SetCfgCall(sensor.config, req, w0, w1)
             p == Pack(req)
         IN  /\ sensor' = [sensor EXCEPT !.config = c.config]
             /\ chip' = WriteEffect(WriteEffect(chip, "ctrl1", p.control[1], w0),
                                    "ctrl2", p.control[2], w1)
             /\ last' = Call("SetCfg", <<w0, w1>>, <<>>, <<>>, c.ret, <<>>, req)
    /\ UNCHANGED hatVars

QMCGetCfg ==
    /\ sensor.made
    /\ \E o0 \in ReadOutcomes(chip.ctrl1), o1 \in ReadOutcomes(chip.ctrl2) :
         LET c == GetCfgCall(sensor.config, o0.n, o1.n, o0.byte, o1.byte)
         IN  /\ sensor' = [sensor EXCEPT !.config = c.config]
             /\ last' = Call("GetCfg", <<o0.n, o1.n>>, <<o0.sel, o1.sel>>,
                             <<o0.byte, o1.byte>>, c.ret, <<>>, ZeroCfg)
    /\ UNCHANGED <<chip, hatVars>>

QMCTest ==
    /\ sensor.made
    /\ \E o0 \in ReadOutcomes(chip.ctrl1), o1 \in ReadOutcomes(chip.ctrl2) :
         LET c == GetCfgCall(sensor.config, o0.n, o1.n, o0.byte, o1.byte)
         IN  /\ sensor' = [sensor EXCEPT !.config = c.config]
             /\ last' = Call("Test", <<o0.n, o1.n>>, <<o0.sel, o1.sel>>,
                             <<o0.byte, o1.byte>>, TestCall(c), <<c.ret>>, ZeroCfg)
    /\ UNCHANGED <<chip, hatVars>>

QMCGetStatus ==
    /\ sensor.made
    /\ \E reg \in StatusBytes : \E o \in ReadOutcomes(reg) :
         LET c == StatusCall(o.n, o.byte)
         IN  last' = Call("GetStatus", <<o.n>>, <<o.sel>>, <<o.byte>>,
                          c.ret, c.out, ZeroCfg)
    /\ UNCHANGED <<chip, sensor, hatVars>>

QMCGetMag ==
    /\ sensor.made
    /\ \E sel \in SelResults, n \in Counts(6), frame \in MagFrames :
         LET buffer == IF n = 6 THEN frame ELSE <<>>
             c == MagCall(n, buffer)
         IN  /\ (sel = QMC_ERROR_GENERIC) => (n = 6)
             /\ (sel = QMC_ERROR_TIMEOUT) => (n = QMC_ERROR_TIMEOUT)
             /\ last' = Call("GetMag", <<n>>, <<sel>>, buffer, c.ret, c.out, ZeroCfg)
    /\ UNCHANGED <<chip, sensor, hatVars>>

QMCGetTemp ==
    /\ sensor.made
    /\ \E t \in TempFrames : \E o0 \in ReadOutcomes(t[1]), o1 \in ReadOutcomes(t[2]) :
         LET c == TempCall(o0.n, o1.n, o0.byte, o1.byte)
         IN  last' = Call("GetTemp", <<o0.n, o1.n>>, <<o0.sel, o1.sel>>,
                          <<o0.byte, o1.byte>>, c.ret, c.out, ZeroCfg)
    /\ UNCHANGED <<chip, sensor, hatVars>>

\* no session yet, no driver call made
QmcIdle ==
    /\ chip = [ctrl1 |-> 0, ctrl2 |-> 0]
    /\ sensor = [made |-> FALSE, config |-> ZeroCfg]
    /\ last = NoCall

\* the chip's control registers at power-up, or as another master left them
PowerUpCtrl1 == {29, 34}
PowerUpCtrl2 == {65}

Ctrl2Bytes == {0, 65, 255}

QmcInit ==
    /\ chip \in [ctrl1 : PowerUpCtrl1, ctrl2 : PowerUpCtrl2]
    /\ sensor = [made |-> FALSE, config |-> ZeroCfg]
    /\ last = NoCall

FramerInit ==
    /\ uartBuf = ZeroBuf
    /\ frameBuf = ZeroBuf
    /\ copying = FALSE
    /\ index = 0
    /\ cur = <<>>
    /\ pos = 0
    /\ nFed = 0
    /\ nNoise = 0
    /\ frameAtStart = ZeroBuf
    /\ oob = FALSE
    /\ nPub = 0

(***************************************************************************)
(* Spec: the framer alone, fed by the line.                                *)
(* SpecHat: the framer's interrupt preempting hatTask.                     *)
(***************************************************************************)
Init == FramerInit /\ TaskInit /\ QmcIdle

Next == IrqStart \/ IrqNext \/ IrqNoise

Spec == Init /\ [][Next]_vars

HatNext == IrqShort \/ IrqNext \/ IrqNoise \/ TaskStart \/ TaskRead \/ TaskFinish

SpecHat == Init /\ [][HatNext]_vars

QmcNext ==
    \/ QMCInit \/ QMCSetCfg \/ QMCGetCfg \/ QMCTest
    \/ QMCGetStatus \/ QMCGetMag \/ QMCGetTemp

QmcBoot == FramerInit /\ TaskInit /\ QmcInit

SpecQmc == QmcBoot /\ [][QmcNext]_vars

\* SpecCfg: QMCGetCfg on a session QMCInit made over a working bus, for
\* every value of control register 1
CfgInit ==
    /\ chip \in [ctrl1 : Bytes, ctrl2 : Ctrl2Bytes]
    /\ \E g \in GarbageCfgs :
         sensor = [made |-> TRUE,
                   config |-> GetCfgCall(g, 1, 1, chip.ctrl1, chip.ctrl2).config]
    /\ last = NoCall

CfgBoot == FramerInit /\ TaskInit /\ CfgInit

SpecCfg == CfgBoot /\ [][QMCGetCfg]_vars

\* SpecTask: hatTask run after run, the receive interrupts falling between
\* two runs; the line carries GGA sentences that parse and one that does not
TaskChunks == { FixSentence(1), FixSentence(2), GGASentence(0, 0) }

\* invocations made before the first one followed here: none, or so many
\* that packetsSent is about to wrap
SentBefore == { [hi |-> 0, lo |-> 0], [hi |-> UINT16 - 1, lo |-> UINT16 - 2] }

IrqIdleStart == taskPc = "idle" /\ RxStart(TaskChunks) /\ TaskPreempted(0)
IrqIdleNext  == taskPc = "idle" /\ RxNext /\ TaskPreempted(nPub)

TaskTick == Tick(MaxPackets)

TaskNext ==
    \/ IrqIdleStart \/ IrqIdleNext
    \/ TaskTick \/ TaskRead \/ TaskFinish

TaskBoot == FramerInit /\ (\E k \in SentBefore : TaskState(k)) /\ QmcIdle

SpecTask == TaskBoot /\ [][TaskNext]_vars

(***************************************************************************)
(* Properties of the framer and of the task                                *)
(***************************************************************************)
\* the last byte of the chunk cur has just been handled by uartRX
ChunkDone == nFed > 0 /\ LineIdle /\ nNoise = 0

\* a sentence whose terminator comes after more than 80 bytes
Oversized(s) == IsSentence(s) /\ Len(s) > MINMEA_MAX_SENTENCE_LENGTH

\* C1: the bytes one parse reads are the bytes of one value of frameBuf
C1_NoTornRead ==
    taskPc = "parsed" =>
        \E v \in views : \A i \in 1 .. Len(snap) : snap[i] = At(v, i - 1)

\* C2: once a sentence ('$' ... '\n') that does not contain "GGA" has been
\* received, frameBuf is what it was before the sentence's first byte
C2_UnmarkedLeavesFrame ==
    (ChunkDone /\ IsSentence(cur) /\ ~Contains(cur, Marker)) =>
        frameBuf = frameAtStart

\* C3: once a sentence of at most 80 bytes that contains "GGA" has been
\* received, frameBuf holds exactly its bytes, and NUL after them
C3_MarkedIsPublishedExactly ==
    (ChunkDone /\ IsSentence(cur) /\ Contains(cur, Marker)
       /\ Len(cur) <= MINMEA_MAX_SENTENCE_LENGTH) =>
        frameBuf = cur

C18_OneSentencePerFrame ==
    /\ (frameBuf # ZeroBuf) => IsSentence(frameBuf)
    /\ nPub <= 1

\* the byte uartRX has just handled is the byte of cur at pos
GotChunkByte == pos' # pos

\* nothing received yet but stray bytes
BeforeFirstStart ==
    (nFed = 0) => (uartBuf = ZeroBuf /\ frameBuf = ZeroBuf /\ index = 0 /\ ~copying)

\* a sentence with the marker that fits the buffer is published once its
\* terminator is handled: frameBuf starts with its bytes
FittingIsPublished ==
    (ChunkDone /\ IsSentence(cur) /\ Contains(cur, Marker)
       /\ Len(cur) <= MINMEA_MAX_SENTENCE_LENGTH) =>
        (nPub = 1 /\ Len(frameBuf) >= Len(cur) /\ SubSeq(frameBuf, 1, Len(cur)) = cur)

\* C19: whatever the framer's state, a '$' is stored at uartBuf[0] and leaves
\* index = 1 and copying set; before the first '$' nothing is stored or
\* published; and a sentence with the marker that fits the buffer is
\* published when its terminator arrives, also after an oversized sentence
C19_StartRestartsCapture ==
    [][ /\ (GotChunkByte /\ cur'[pos'] = DOLLAR) =>
             (At(uartBuf', 0) = DOLLAR /\ index' = 1 /\ copying')
        /\ BeforeFirstStart'
        /\ FittingIsPublished' ]_vars

\* "$GGA" and its terminator have been received and published after an
\* oversized sentence had filled uartBuf, whose last byte is still there
C19_Witness ==
    /\ ChunkDone
    /\ cur = GGASentence(0, 0)
    /\ nPub = 1
    /\ index = Len(cur)
    /\ Len(uartBuf) = MINMEA_MAX_SENTENCE_LENGTH
    /\ At(uartBuf, MINMEA_MAX_SENTENCE_LENGTH - 1) = COMMA
    /\ SubSeq(frameBuf, 1, Len(cur)) = cur

(***************************************************************************)
(* Properties of the magnetometer driver                                   *)
(***************************************************************************)
SameFields(c, d) ==
    /\ c.mode = d.mode /\ c.ODR = d.ODR /\ c.OSR = d.OSR /\ c.scale = d.scale
    /\ c.pointerRoll = d.pointerRoll /\ c.enableInterrupt = d.enableInterrupt

\* C5: a QMCSetCfg call leaves in sensor->config the requested configuration
\* (with its two control bytes) when both writes returned 2, and leaves
\* sensor->config as it was for every other pair of results
C5_CacheIffBothWrites ==
    [][ (last'.op = "SetCfg") =>
          IF last'.res[1] = 2 /\ last'.res[2] = 2
          THEN sensor'.config = Pack(last'.req)
          ELSE sensor'.config = sensor.config ]_vars

\* QMCSetCfg has run with its first write complete and its second not, and
\* the cache is not the configuration asked for
C5_Witness ==
    /\ last.op = "SetCfg"
    /\ last.res[1] = 2 /\ last.res[2] # 2
    /\ chip.ctrl1 = Pack(last.req).control[1]
    /\ sensor.config # Pack(last.req)

\* C6: QMCSetCfg, QMCGetCfg and QMCGetTemp return QMC_OK only when both bus
\* operations returned the full count; otherwise they return a negative
\* error code, the smaller of the two results when both failed
C6_OkOnlyOnFullCounts ==
    (last.op \in {"SetCfg", "GetCfg", "GetTemp"}) =>
        LET full == IF last.op = "SetCfg" THEN 2 ELSE 1
            ok0  == last.res[1] = full
            ok1  == last.res[2] = full
        IN  /\ (last.ret = QMC_OK) => (ok0 /\ ok1)
            /\ ~(ok0 /\ ok1) => last.ret \in {QMC_ERROR_TIMEOUT, QMC_ERROR_GENERIC}
            /\ (~ok0 /\ ~ok1) => last.ret = Min(last.res[1], last.res[2])

\* C7: QMCGetMag returns QMC_OK and the three little-endian words when the
\* burst read returned 6, QMC_ERROR_TIMEOUT when it timed out, and
\* QMC_ERROR_GENERIC otherwise
C7_GetMagResult ==
    (last.op = "GetMag") =>
        /\ (last.res[1] = 6) =>
              /\ last.ret = QMC_OK
              /\ last.out = << ToInt16(last.buf[1] + 256 * last.buf[2]),
                               ToInt16(last.buf[3] + 256 * last.buf[4]),
                               ToInt16(last.buf[5] + 256 * last.buf[6]) >>
        /\ (last.res[1] = QMC_ERROR_TIMEOUT) => last.ret = QMC_ERROR_TIMEOUT
        /\ (last.res[1] \notin {6, QMC_ERROR_TIMEOUT}) => last.ret = QMC_ERROR_GENERIC

\* C8, as claimed: the cached configuration of a session changes only in a
\* QMCSetCfg call whose two writes both returned 2
C8_OnlySetCfgChangesCache ==
    [][ (sensor.made /\ sensor'.config # sensor.config) =>
          (last'.op = "SetCfg" /\ last'.res = <<2, 2>>) ]_vars

\* C8, amended: the cached configuration changes only in a QMCSetCfg call
\* whose two writes both returned 2, in a QMCGetCfg call (made directly or by
\* QMCTest) whose two reads both returned 1, or in QMCInit, which creates it
C8_OnlySetCfgAndGetCfgChangeCache ==
    [][ (sensor'.config # sensor.config) =>
          \/ last'.op = "SetCfg" /\ last'.res = <<2, 2>>
          \/ last'.op \in {"GetCfg", "Test"} /\ last'.res = <<1, 1>>
          \/ last'.op = "Init" /\ ~sensor.made ]_vars

\* QMCGetCfg has read both registers and the mode it decoded is not the mode
\* bit of the control byte the cache holds
C8_Witness ==
    /\ last.op = "GetCfg"
    /\ last.res = <<1, 1>>
    /\ last.selOk
    /\ sensor.config.mode = chip.ctrl1 % 2
    /\ sensor.config.mode # sensor.config.control[1] % 2

\* C9: QMCSetCfg with both writes returning 2, then at once QMCGetCfg with
\* both reads returning 1: QMCGetCfg returns QMC_OK and the six fields of
\* sensor->config are the ones set
C9_RoundTrip ==
    [][ (/\ last.op = "SetCfg" /\ last.res = <<2, 2>>
         /\ chip.ctrl1 = Pack(last.req).control[1]
         /\ chip.ctrl2 = Pack(last.req).control[2]
         /\ last'.op = "GetCfg" /\ last'.res = <<1, 1>>) =>
          (last'.ret = QMC_OK /\ SameFields(sensor'.config, last.req)) ]_vars

\* C10: when both reads returned 1, QMCGetCfg returns QMC_ERROR_INVALID if
\* bit 1 or bit 5 of the byte read from control register 1 is set, and
\* QMC_OK if neither is
C10_InvalidIffReserved ==
    (last.op = "GetCfg" /\ last.res = <<1, 1>>) =>
        last.ret = (IF (last.buf[1] \div 2) % 2 = 1 \/ (last.buf[1] \div 32) % 2 = 1
                    THEN QMC_ERROR_INVALID ELSE QMC_OK)

\* QMCGetCfg has read 0xDF (bit 1 set, bit 5 clear, every other bit set) from
\* control register 1 and reported an invalid configuration
C10_Witness ==
    /\ last.op = "GetCfg"
    /\ last.res = <<1, 1>>
    /\ last.selOk
    /\ last.buf[1] = 223
    /\ chip.ctrl1 = 223
    /\ last.ret = QMC_ERROR_INVALID

\* every bus operation of the call, selector writes included, timed out
AllTimedOut(c) ==
    /\ c.res # <<>>
    /\ \A i \in DOMAIN c.res : c.res[i] = QMC_ERROR_TIMEOUT
    /\ \A i \in DOMAIN c.sels : c.sels[i] = QMC_ERROR_TIMEOUT

\* C11: when every read and write of the call returned the timeout code,
\* QMCTest, QMCGetCfg, QMCGetStatus, QMCGetMag and QMCGetTemp return
\* QMC_ERROR_TIMEOUT (and so never QMC_ERROR_GENERIC)
C11_TimeoutOnDeadBus ==
    (last.op \in {"Test", "GetCfg", "GetStatus", "GetMag", "GetTemp"}
       /\ AllTimedOut(last)) =>
        last.ret = QMC_ERROR_TIMEOUT

\* QMCGetStatus has run with its selector write and its read both timed out
C11_Witness ==
    /\ last.op = "GetStatus"
    /\ AllTimedOut(last)
    /\ last.sels = <<QMC_ERROR_TIMEOUT>>
    /\ last.ret = QMC_ERROR_TIMEOUT

\* the count a bus operation of the call returns when it moved every byte
FullCounts(op) ==
    CASE op = "Init"   -> <<2, 1, 1>>
      [] op = "SetCfg" -> <<2, 2>>
      [] op = "GetMag" -> <<6>>
      [] op = "GetStatus" -> <<1>>
      [] OTHER -> <<1, 1>>

\* one of the call's bus operations failed: a write or read that did not move
\* every byte, or a register-selector write that was not taken
BusFailed(c) == c.res # FullCounts(c.op) \/ ~c.selOk

\* C12: a driver call one of whose bus operations failed reports an error to
\* its caller (a negative code); QMCInit, which returns the session and no
\* code, reports none
C12_EveryFailureReported ==
    (last.op # "none" /\ BusFailed(last)) =>
        (last.op # "Init" /\ last.ret < 0)

\* C16: QMCTest returns QMC_OK exactly when its QMCGetCfg call returned
\* QMC_OK and the mode that call decoded from control register 1 is not
\* standby, QMC_ERROR_STANDBY exactly when it returned QMC_OK and the mode
\* it decoded is standby, and otherwise the code QMCGetCfg returned
C16_TestResult ==
    (last.op = "Test") =>
        LET cfgStatus == last.out[1]
            decoded   == last.res = <<1, 1>>
            mode      == last.buf[1] % 2
        IN  /\ (last.ret = QMC_OK) <=>
                  (cfgStatus = QMC_OK /\ decoded /\ mode # QMC_STANDBY)
            /\ (last.ret = QMC_ERROR_STANDBY) <=>
                  (cfgStatus = QMC_OK /\ decoded /\ mode = QMC_STANDBY)
            /\ (cfgStatus # QMC_OK) => (last.ret = cfgStatus)

(***************************************************************************)
(* Properties of hatTask's packet                                          *)
(***************************************************************************)
\* an invocation of hatTask has returned
TickDone == taskPc = "idle" /\ nTicks > 0

\* the names of the calls made to the radio, in order
RadioNames ==
    LET rc == SelectSeq(calls, LAMBDA c : c.call # "fPush")
    IN  [i \in 1 .. Len(rc) |-> rc[i].call]

\* the positions in calls of the calls to fPush
LogAt == { i \in 1 .. Len(calls) : calls[i].call = "fPush" }

\* v + n in 32 bits, for 0 <= n < 2^16
Add32(v, n) ==
    LET t == v.lo + n
    IN  [hi |-> (v.hi + (t \div UINT16)) % UINT16, lo |-> t % UINT16]

\* C13: after an invocation that found no frame published since the previous
\* one, or whose frame did not parse, the GPS fields of the packet are the
\* fields of the last parse that succeeded (all zero before any has)
C13_StaleFieldsReused ==
    (TickDone /\ (~tick.fresh \/ ~tick.ok)) => GpsFields(pkt) = tick.good

\* C14: an invocation of hatTask calls beginPacket, write and endPacket once
\* each, in this order, whatever each of them reports
C14_RadioOncePerTick ==
    TickDone => RadioNames = <<"beginPacket", "write", "endPacket">>

\* an invocation whose write reported a failure has called endPacket after it
C14_Witness ==
    /\ TickDone
    /\ Len(calls) >= 3
    /\ calls[2].call = "write" /\ ~calls[2].ok
    /\ calls[3].call = "endPacket"

\* C15: the k-th invocation transmits seq_no = k - 1 modulo 2^32, whatever
\* the radio calls of the earlier invocations reported
C15_SeqNoCountsInvocations ==
    TickDone =>
        /\ pkt.seq_no = Add32(sentBefore, nTicks - 1)
        /\ calls[2].arg.seq_no = pkt.seq_no

\* the counter has wrapped: invocation number 2^32 + 1 transmits 0, after an
\* invocation whose packet was 2^32 - 1
C15_Witness ==
    /\ TickDone
    /\ nTicks = 3
    /\ sentBefore = [hi |-> UINT16 - 1, lo |-> UINT16 - 2]
    /\ pkt.seq_no = [hi |-> 0, lo |-> 0]
    /\ packetsSent = [hi |-> 0, lo |-> 1]

====
